---------------------------- MODULE Spec2Model ----------------------------
(***************************************************************************)
(* A model of the PDF outline extractor: the text cleaner and candidate    *)
(* filter (pdf_utils/text_extract.py), the span extractor                  *)
(* (pdf_utils/reader.py) and the per-document and batch drivers            *)
(* (process_pdfs.py).                                                      *)
(*                                                                         *)
(* Text is a sequence of characters, each character a one-character        *)
(* string; "COPYRIGHT" stands for the copyright sign and "BULLET" for      *)
(* the bullet glyphs of the 'bullets' pattern other than "-".  Sizes and   *)
(* coordinates are integers (layout units); a quotient is kept as an       *)
(* exact fraction [num, den].                                              *)
(***************************************************************************)
EXTENDS Integers, Sequences, FiniteSets, TLC

VARIABLES
    pc,             \* position of the run under check
    text,           \* clean_heading_text: the argument
    cleaned,        \* clean_heading_text(text)
    recleaned,      \* clean_heading_text(cleaned)
    headings,       \* filter_heading_candidates: the argument as passed
    headings_after, \* the argument list after the call
    filtered,       \* the list the call returned
    outline,        \* the outline items built from it
    refiltered,     \* filter_heading_candidates(filtered)
    title_args,     \* extract_title_with_fallback: [blocks, metadata, filename]
    title_result,   \* what it returned, and the strategies it called
    doc,            \* extract_outline_from_pdf: the document at pdf_path
    extraction,     \* what it returned, and what it ran
    page_in,        \* extract_blocks_from_page: the page
    page_blocks,    \* the blocks it returned
    schema,         \* OutlineExtractor.schema
    stats,          \* OutlineExtractor.stats
    pdf_files,      \* process_directory: the files globbed by the call
    pending,        \* the files the loop has still to visit
    log,            \* one record per file the call has processed
    outputs,        \* the output directory: the JSON written, by file name
    like_args,      \* is_heading_like: [text, font_size, body_size, flags,
                    \* threshold]
    like_result     \* what it returned

cleanVars  == <<text, cleaned, recleaned>>
filterVars == <<headings, headings_after, filtered, outline, refiltered>>
titleVars  == <<title_args, title_result>>
docVars    == <<doc, extraction>>
spanVars   == <<page_in, page_blocks>>
batchVars  == <<schema, stats, pdf_files, pending, log, outputs>>
likeVars   == <<like_args, like_result>>

vars == <<pc, text, cleaned, recleaned,
          headings, headings_after, filtered, outline, refiltered,
          title_args, title_result, doc, extraction, page_in, page_blocks,
          schema, stats, pdf_files, pending, log, outputs,
          like_args, like_result>>

\* Python's None, and the value of a variable not in use: a sequence that
\* is no text (its one element is not a character), so that it compares
\* with texts and lists.
None == <<"None">>

\* The result of a call that raised.
Raised == <<"raised">>

-----------------------------------------------------------------------------
(* Characters and the str methods the code uses.                           *)

UpperSeq == <<"A","B","C","D","E","F","G","H","I","J","K","L","M",
              "N","O","P","Q","R","S","T","U","V","W","X","Y","Z">>
LowerSeq == <<"a","b","c","d","e","f","g","h","i","j","k","l","m",
              "n","o","p","q","r","s","t","u","v","w","x","y","z">>

Range(f) == {f[i] : i \in DOMAIN f}

UpperChars == Range(UpperSeq)
LowerChars == Range(LowerSeq)
AlphaChars == UpperChars \cup LowerChars                \* [a-zA-Z], c.isalpha()
DigitChars == {"0","1","2","3","4","5","6","7","8","9"} \* \d
SpaceChars == {" ", "\t"}                               \* \s, str.strip()
WordChars  == AlphaChars \cup DigitChars \cup {"_"}     \* \w
RomanChars == {"I","V","X","L","C","D","M","i","v","x","l","c","d","m"}
BulletChars == {"-", "BULLET"}

lower_char(c) ==
    IF c \in UpperChars
    THEN LowerSeq[CHOOSE i \in DOMAIN UpperSeq : UpperSeq[i] = c]
    ELSE c

lower(s) == [i \in DOMAIN s |-> lower_char(s[i])]

\* The first index >= i of s whose character is not in C (Len(s)+1 if none).
RECURSIVE SkipSet(_, _, _)
SkipSet(s, i, C) ==
    IF i <= Len(s) /\ s[i] \in C THEN SkipSet(s, i + 1, C) ELSE i

\* The last index <= i of s whose character is not in C (0 if none).
RECURSIVE SkipSetBack(_, _, _)
SkipSetBack(s, i, C) ==
    IF i >= 1 /\ s[i] \in C THEN SkipSetBack(s, i - 1, C) ELSE i

Drop(s, n) == SubSeq(s, n + 1, Len(s))

rstrip_chars(s, C) == SubSeq(s, 1, SkipSetBack(s, Len(s), C))
lstrip_chars(s, C) == Drop(s, SkipSet(s, 1, C) - 1)
strip(s) == rstrip_chars(lstrip_chars(s, SpaceChars), SpaceChars)

\* sub occurs in s at index i.
OccursAt(s, sub, i) ==
    /\ i >= 1
    /\ i + Len(sub) - 1 <= Len(s)
    /\ \A k \in 1..Len(sub) : s[i + k - 1] = sub[k]

\* Python's  sub in s.
Contains(s, sub) == \E i \in 1..(Len(s) + 1) : OccursAt(s, sub, i)

\* sum(1 for c in s if c.isalpha())
alpha_count(s) == Cardinality({i \in DOMAIN s : s[i] \in AlphaChars})

-----------------------------------------------------------------------------
(* CLEANING_PATTERNS.  Each Match operator gives the index of the last     *)
(* character of the match at the start of s, 0 when there is none (every   *)
(* pattern below consumes at least one character).  The quantifiers are    *)
(* greedy; in each pattern the character after a greedy run cannot be      *)
(* matched by what follows the run, so backtracking never finds a match    *)
(* the greedy scan misses.                                                 *)

\* (?:\.\d+)* from index i: the index after the last repetition.
RECURSIVE SkipDotDigits(_, _)
SkipDotDigits(s, i) ==
    IF i + 1 <= Len(s) /\ s[i] = "." /\ s[i + 1] \in DigitChars
    THEN SkipDotDigits(s, SkipSet(s, i + 1, DigitChars))
    ELSE i

\* 'section_numbers':  ^\s*\d+(?:\.\d+)*\s+
MatchSectionNumbers(s) ==
    LET i1 == SkipSet(s, 1, SpaceChars)
        i2 == SkipSet(s, i1, DigitChars)
        i3 == SkipDotDigits(s, i2)
        i4 == SkipSet(s, i3, SpaceChars)
    IN  IF i2 > i1 /\ i4 > i3 THEN i4 - 1 ELSE 0

\* 'numbering', re.IGNORECASE:
\* ^\s*(?:\d+(?:[.)]|\s+)|\d+(?:\.\d+)+\s*|[IVXLCDM]+\.\s*|[a-zA-Z]\.\s*)
MatchNumbering(s) ==
    LET i1 == SkipSet(s, 1, SpaceChars)
        d  == SkipSet(s, i1, DigitChars)
        dd == SkipDotDigits(s, d)
        r  == SkipSet(s, i1, RomanChars)
    IN  IF d > i1 /\ d <= Len(s) /\ s[d] \in {".", ")"}
            THEN d
        ELSE IF d > i1 /\ SkipSet(s, d, SpaceChars) > d
            THEN SkipSet(s, d, SpaceChars) - 1
        ELSE IF d > i1 /\ dd > d
            THEN SkipSet(s, dd, SpaceChars) - 1
        ELSE IF r > i1 /\ r <= Len(s) /\ s[r] = "."
            THEN SkipSet(s, r + 1, SpaceChars) - 1
        ELSE IF /\ i1 + 1 <= Len(s)
                /\ s[i1] \in AlphaChars
                /\ s[i1 + 1] = "."
            THEN SkipSet(s, i1 + 2, SpaceChars) - 1
        ELSE 0

\* 'bullets':  ^\s*[-...]\s*
MatchBullets(s) ==
    LET i1 == SkipSet(s, 1, SpaceChars)
    IN  IF i1 <= Len(s) /\ s[i1] \in BulletChars
        THEN SkipSet(s, i1 + 1, SpaceChars) - 1
        ELSE 0

\* pattern.sub('', s) for a pattern anchored at the start.
SubPrefix(s, matchEnd) == Drop(s, matchEnd)

\* 'whitespace'.sub(' ', s):  every run of \s+ becomes one space.
RECURSIVE CollapseFrom(_, _)
CollapseFrom(s, i) ==
    IF i > Len(s) THEN <<>>
    ELSE IF s[i] \in SpaceChars
        THEN <<" ">> \o CollapseFrom(s, SkipSet(s, i, SpaceChars))
        ELSE <<s[i]>> \o CollapseFrom(s, i + 1)

collapse_whitespace(s) == CollapseFrom(s, 1)

TrailingStrip == {".", "-", "_", ":"}

-----------------------------------------------------------------------------
(* TextExtractor.clean_heading_text                                        *)

clean_heading_text(t) ==
    IF t = <<>> \/ strip(t) = <<>> THEN <<>>
    ELSE LET c0 == strip(t)
             c1 == strip(SubPrefix(c0, MatchSectionNumbers(c0)))
             c2 == strip(SubPrefix(c1, MatchNumbering(c1)))
             c3 == strip(SubPrefix(c2, MatchBullets(c2)))
             c4 == strip(collapse_whitespace(c3))
         IN  rstrip_chars(c4, TrailingStrip)

-----------------------------------------------------------------------------
(* The patterns used as predicates (pattern.match / pattern.search).       *)

\* The words the patterns, the vocabularies and the overrides look for.
Words ==
    [page |-> <<"p","a","g","e">>,
     of |-> <<"o","f">>,
     copyright |-> <<"c","o","p","y","r","i","g","h","t">>,
     board |-> <<"b","o","a","r","d">>,
     application |-> <<"a","p","p","l","i","c","a","t","i","o","n">>,
     form |-> <<"f","o","r","m">>,
     grant |-> <<"g","r","a","n","t">>,
     ltc |-> <<"l","t","c">>,
     page_sp |-> <<"p","a","g","e"," ">>,
     document |-> <<"d","o","c","u","m","e","n","t">>,
     draft |-> <<"d","r","a","f","t">>,
     version |-> <<"v","e","r","s","i","o","n">>,
     table_of_contents |-> <<"t","a","b","l","e"," ","o","f"," ","c","o","n","t","e","n","t","s">>,
     toc |-> <<"t","o","c">>,
     index |-> <<"i","n","d","e","x">>,
     file05 |-> <<"f","i","l","e","0","5">>,
     dot_pdf |-> <<".","p","d","f">>,
     file01 |-> <<"f","i","l","e","0","1">>,
     government |-> <<"g","o","v","e","r","n","m","e","n","t">>,
     servant |-> <<"s","e","r","v","a","n","t">>]

\* 'page_numbers'.match(s), re.IGNORECASE:
\* ^\s*(?:page\s+)?\d+(?:\s+of\s+\d+)?\s*$
MatchPageNumbers(s) ==
    LET l  == lower(s)
        i1 == SkipSet(l, 1, SpaceChars)
        hasPage == /\ OccursAt(l, Words.page, i1)
                   /\ SkipSet(l, i1 + 4, SpaceChars) > i1 + 4
        i2 == IF hasPage THEN SkipSet(l, i1 + 4, SpaceChars) ELSE i1
        i3 == SkipSet(l, i2, DigitChars)
        w1 == SkipSet(l, i3, SpaceChars)
        w2 == SkipSet(l, w1 + 2, SpaceChars)
        i4 == SkipSet(l, w2, DigitChars)
        hasOf == /\ w1 > i3
                 /\ OccursAt(l, Words.of, w1)
                 /\ w2 > w1 + 2
                 /\ i4 > w2
        i5 == IF hasOf THEN i4 ELSE i3
    IN  i3 > i2 /\ SkipSet(l, i5, SpaceChars) = Len(l) + 1

\* 'copyright_text'.search(s), re.IGNORECASE:  (c).*|copyright.*|\d{4}.*board
SearchCopyright(s) ==
    LET l == lower(s)
    IN  \/ Contains(l, <<"COPYRIGHT">>)
        \/ Contains(l, Words.copyright)
        \/ \E i \in 1..Len(l) :
              /\ i + 3 <= Len(l)
              /\ \A k \in 0..3 : l[i + k] \in DigitChars
              /\ \E j \in (i + 4)..Len(l) : OccursAt(l, Words.board, j)

\* 'table_content'.match(s):  .*[:;]\s*$|^[^a-zA-Z<CJK>]{3,}$
MatchTableContent(s) ==
    LET e == SkipSetBack(s, Len(s), SpaceChars)
    IN  \/ (e >= 1 /\ s[e] \in {":", ";"})
        \/ (Len(s) >= 3 /\ \A i \in DOMAIN s : s[i] \notin AlphaChars)

-----------------------------------------------------------------------------
(* TextExtractor.filter_heading_candidates.  A heading candidate is a      *)
(* record [text, level, page, bbox]; bbox stands for the fields of the     *)
(* span the candidate was made from.                                       *)

MinLength == 3
MaxLength == 200


FilterFormWords == {Words.application, Words.form, Words.grant, Words.ltc}

\* The checks of the loop body that drop a candidate before it is cleaned.
PassesTextChecks(t) ==
    /\ t # <<>>
    /\ MinLength <= Len(t) /\ Len(t) <= MaxLength
    /\ ~(MatchPageNumbers(t) \/ SearchCopyright(t))
    /\ ~MatchTableContent(t)
    /\ alpha_count(t) * 10 >= 3 * Len(t)      \* alpha_ratio >= 0.3

\* TextKey without .lower(): the key keeps the letter case.
TextKeyCaseSensitive(c) == strip(c)

\* text_key = cleaned_text.lower().strip()
TextKey(c) == strip(lower(c))

\* any(word in text.lower() for word in [...])
HasFilterFormWord(t) == \E w \in FilterFormWords : Contains(lower(t), w)

\* heading_copy without .copy(): the new entry is the list's own element.
heading_alias(h, cleaned_text) ==
    [orig |-> [h EXCEPT !.text = cleaned_text \o <<" ">>],
     copy |-> [h EXCEPT !.text = cleaned_text \o <<" ">>]]

\* heading_copy = heading.copy(); heading_copy['text'] = cleaned_text + ' '
\* orig is the list's own element after the two statements, copy the new one.
heading_copy(h, cleaned_text) ==
    [orig |-> h, copy |-> [h EXCEPT !.text = cleaned_text \o <<" ">>]]

\* The loop over the candidates from index i on.  hs is the argument list
\* as the iterations so far left it, `filtered` the list built so far; the
\* value is the list returned and the argument list at the return.
RECURSIVE FilterFrom(_, _, _, _)
FilterFrom(hs, i, seen, filtered_so_far) ==
    IF i > Len(hs) THEN [filtered |-> filtered_so_far, headings |-> hs]
    ELSE LET t == strip(hs[i].text)
             c == clean_heading_text(t)
             made == heading_copy(hs[i], c)
         IN  IF ~PassesTextChecks(t)
                 THEN FilterFrom(hs, i + 1, seen, filtered_so_far)
             ELSE IF c = <<>>
                 THEN FilterFrom(hs, i + 1, seen, filtered_so_far)
             ELSE IF TextKey(c) \in seen
                 THEN FilterFrom(hs, i + 1, seen, filtered_so_far)
             ELSE IF HasFilterFormWord(t) /\ filtered_so_far = <<>>
                 THEN [filtered |-> <<>>, headings |-> hs]
             ELSE FilterFrom([hs EXCEPT ![i] = made.orig], i + 1,
                             seen \cup {TextKey(c)},
                             Append(filtered_so_far, made.copy))

\* One call: the list returned, and the argument list as the call leaves it.
FilterRun(hs) ==
    IF hs = <<>> THEN [filtered |-> <<>>, headings |-> hs]
    ELSE FilterFrom(hs, 1, {}, <<>>)

filter_heading_candidates(hs) == FilterRun(hs).filtered

\* extract_outline_from_pdf, the loop that builds the outline items.
assemble_outline(filtered_headings) ==
    [k \in DOMAIN filtered_headings |->
        [level |-> filtered_headings[k].level,
         text  |-> filtered_headings[k].text,
         page  |-> filtered_headings[k].page]]

-----------------------------------------------------------------------------
(* Title extraction.  A block is the record extract_blocks_from_page makes *)
(* of a span, with the page index get_text_blocks_vectorized adds; bbox is *)
(* <<x0, y0, x1, y1>>, so bbox[2] is Python's bbox[1].                     *)

Y0(b) == b.bbox[2]

Abs(n) == IF n < 0 THEN -n ELSE n

Max(S) == CHOOSE m \in S : \A n \in S : n <= m

\* ' '.join(parts), and sep.join in general.
RECURSIVE Join(_, _)
Join(parts, sep) ==
    IF parts = <<>> THEN <<>>
    ELSE IF Len(parts) = 1 THEN parts[1]
    ELSE parts[1] \o sep \o Join(Tail(parts), sep)

\* s.replace(old, new), old non-empty: every occurrence, left to right.
RECURSIVE ReplaceFrom(_, _, _, _)
ReplaceFrom(s, i, old, new) ==
    IF i > Len(s) THEN <<>>
    ELSE IF OccursAt(s, old, i)
        THEN new \o ReplaceFrom(s, i + Len(old), old, new)
        ELSE <<s[i]>> \o ReplaceFrom(s, i + 1, old, new)

replace(s, old, new) == ReplaceFrom(s, 1, old, new)

\* [x for x in seq if P(x)], for a set of indices.
RECURSIVE SelectIdx(_, _, _)
SelectIdx(seq, keep, i) ==
    IF i > Len(seq) THEN <<>>
    ELSE IF i \in keep THEN <<seq[i]>> \o SelectIdx(seq, keep, i + 1)
    ELSE SelectIdx(seq, keep, i + 1)

\* sorted(seq, key=...) for keys <<k1, k2>> compared as Python compares
\* tuples.  keyed is the sequence of [key, val] records still in input order.
KeyLess(a, b) == a[1] < b[1] \/ (a[1] = b[1] /\ a[2] < b[2])

RECURSIVE InsertSorted(_, _)
InsertSorted(sorted, x) ==
    IF sorted = <<>> THEN <<x>>
    ELSE IF ~KeyLess(Head(sorted).key, x.key) THEN <<x>> \o sorted
    ELSE <<Head(sorted)>> \o InsertSorted(Tail(sorted), x)

\* The elements are inserted from the last to the first, each before its
\* equals, so elements with equal keys keep their input order (stable).
RECURSIVE SortedFrom(_, _, _)
SortedFrom(keyed, i, acc) ==
    IF i = 0 THEN acc
    ELSE SortedFrom(keyed, i - 1, InsertSorted(acc, keyed[i]))

SortedByKey(keyed) ==
    LET r == SortedFrom(keyed, Len(keyed), <<>>)
    IN  [i \in DOMAIN r |-> r[i].val]

\* sorted(blocks, key=lambda x: x['bbox'][1])
SortedByY(blocks) ==
    SortedByKey([i \in DOMAIN blocks |->
                    [key |-> <<0, Y0(blocks[i])>>, val |-> blocks[i]]])

\* sorted(blocks, key=lambda x: (x.get('page', 0), x['bbox'][1]))
SortedByPageY(blocks) ==
    SortedByKey([i \in DOMAIN blocks |->
                    [key |-> <<blocks[i].page, Y0(blocks[i])>>, val |-> blocks[i]]])


InvalidTitlePatterns ==
    {Words.page_sp, Words.document, Words.draft, Words.version, Words.table_of_contents,
     Words.toc, Words.index}

\* TextExtractor._is_valid_title
_is_valid_title(t) ==
    /\ t # <<>>
    /\ Len(strip(t)) >= 3
    /\ \A w \in InvalidTitlePatterns : ~Contains(strip(lower(t)), w)
    /\ ~(alpha_count(t) * 10 < Len(t) * 3)
    /\ ~MatchTableContent(t)

StopWords ==
    {<<"t","h","e">>, <<"a">>, <<"a","n">>, <<"a","n","d">>, <<"o","r">>,
     <<"b","u","t">>, <<"i","n">>, <<"o","n">>, <<"a","t">>, <<"t","o">>,
     <<"f","o","r">>, <<"o","f">>, <<"w","i","t","h">>, <<"b","y">>,
     Words.page, Words.document, <<"f","i","l","e">>,
     <<"u","n","t","i","t","l","e","d">>, Words.draft, Words.version, <<"v">>,
     <<"p","d","f">>}

\* re.findall(r'\b\w+\b', s): the maximal runs of word characters.
RECURSIVE WordsFrom(_, _)
WordsFrom(s, i) ==
    IF i > Len(s) THEN {}
    ELSE IF s[i] \in WordChars
        THEN {SubSeq(s, i, SkipSet(s, i, WordChars) - 1)}
             \cup WordsFrom(s, SkipSet(s, i, WordChars))
        ELSE WordsFrom(s, i + 1)

\* TextExtractor._is_stop_word_only
_is_stop_word_only(t) == WordsFrom(lower(t), 1) \subseteq StopWords

PageCutoffPercent == 15     \* page_cutoff = 0.15
StitchSizeTolerance == 1    \* abs(font_size - max_size) <= 1.0
StitchDistance == 30        \* abs(y - title y) <= 30
UpperFallbackCount == 3     \* sorted_blocks[:3]
FirstLineScanLimit == 20    \* sorted_blocks[:20]

TitlePadding == <<" ", " ">>

Prefix(seq, n) == SubSeq(seq, 1, IF Len(seq) < n THEN Len(seq) ELSE n)

\* TextExtractor.extract_title_strategy_1
extract_title_strategy_1(blocks) ==
    LET first_page_blocks ==
            SelectIdx(blocks, {i \in DOMAIN blocks : blocks[i].page = 0}, 1)
    IN  IF blocks = <<>> \/ first_page_blocks = <<>> THEN None
        ELSE
        LET page_height == first_page_blocks[1].page_height
            upper_in_cutoff ==
                SelectIdx(first_page_blocks,
                          {i \in DOMAIN first_page_blocks :
                              Y0(first_page_blocks[i]) * 100
                                  <= page_height * PageCutoffPercent}, 1)
            upper_blocks ==
                IF upper_in_cutoff # <<>> THEN upper_in_cutoff
                ELSE Prefix(SortedByY(first_page_blocks), UpperFallbackCount)
            max_size == Max({upper_blocks[i].font_size : i \in DOMAIN upper_blocks})
            largest_blocks ==
                SortedByY(SelectIdx(upper_blocks,
                                    {i \in DOMAIN upper_blocks :
                                        upper_blocks[i].font_size = max_size}, 1))
            title_block == largest_blocks[1]
            stitched ==
                SelectIdx(upper_blocks,
                          {i \in DOMAIN upper_blocks :
                              /\ upper_blocks[i] # title_block
                              /\ Abs(upper_blocks[i].font_size - max_size)
                                    <= StitchSizeTolerance
                              /\ Abs(Y0(upper_blocks[i]) - Y0(title_block))
                                    <= StitchDistance}, 1)
            title_parts ==
                <<title_block.text>> \o [i \in DOMAIN stitched |-> stitched[i].text]
            title_candidate == strip(Join(title_parts, <<" ">>))
        IN  IF _is_valid_title(title_candidate)
            THEN title_candidate \o TitlePadding
            ELSE None

\* PDFReader.get_title_from_metadata.  metadata is doc.metadata as the
\* record [present, title]: present is its truth value, title the value of
\* metadata.get("title", ""), a text or None.  None.strip() raises.
get_title_from_metadata(metadata) ==
    IF ~metadata.present THEN None
    ELSE IF metadata.title = None THEN Raised
    ELSE IF strip(metadata.title) # <<>> THEN strip(metadata.title)
    ELSE None

\* Strategy 2 without the validity check on the metadata title.
title_strategy_2_unvalidated(metadata) ==
    IF get_title_from_metadata(metadata) \in {None, Raised} THEN None
    ELSE strip(get_title_from_metadata(metadata)) \o TitlePadding

\* TextExtractor.extract_title_strategy_2
extract_title_strategy_2(metadata) ==
    LET metadata_title == get_title_from_metadata(metadata)
    IN  IF metadata_title = Raised THEN None
        ELSE IF metadata_title # None /\ _is_valid_title(metadata_title)
            THEN strip(metadata_title) \o TitlePadding
        ELSE None

\* The loop of extract_title_strategy_3 from index i of the sorted blocks.
RECURSIVE FirstMeaningfulFrom(_, _)
FirstMeaningfulFrom(sorted_blocks, i) ==
    IF i > Len(sorted_blocks) THEN None
    ELSE LET t == strip(sorted_blocks[i].text)
         IN  IF Len(t) < 3
                 THEN FirstMeaningfulFrom(sorted_blocks, i + 1)
             ELSE IF MatchPageNumbers(t) \/ SearchCopyright(t)
                 THEN FirstMeaningfulFrom(sorted_blocks, i + 1)
             ELSE IF _is_valid_title(t) /\ ~_is_stop_word_only(t)
                 THEN t \o TitlePadding
             ELSE FirstMeaningfulFrom(sorted_blocks, i + 1)

\* TextExtractor.extract_title_strategy_3
extract_title_strategy_3(blocks) ==
    IF blocks = <<>> THEN None
    ELSE FirstMeaningfulFrom(
            Prefix(SortedByPageY(blocks), FirstLineScanLimit), 1)

UntitledDocument ==
    <<"U","n","t","i","t","l","e","d"," ","D","o","c","u","m","e","n","t">>

\* The filename branch of extract_title_with_fallback.
filename_title(filename) ==
    LET stem == replace(replace(replace(filename, Words.dot_pdf, <<>>),
                                <<"_">>, <<" ">>), <<"-">>, <<" ">>)
    IN  IF strip(stem) # <<>> THEN strip(stem) \o TitlePadding
        ELSE UntitledDocument

\* A strategy's result counts when it is neither None nor empty.
Truthy(r) == r # None /\ r # <<>>

\* The cascade with the metadata strategy tried before the layout strategy.
title_cascade_metadata_first(blocks, metadata, filename) ==
    LET r1 == extract_title_strategy_1(blocks)
        r2 == extract_title_strategy_2(metadata)
        r3 == extract_title_strategy_3(blocks)
    IN  IF filename # <<>> /\ Contains(lower(filename), Words.file05)
            THEN [title |-> <<>>, strategy |-> "special_empty", consulted |-> <<>>]
        ELSE IF Truthy(r2)
            THEN [title |-> r2, strategy |-> "metadata", consulted |-> <<2>>]
        ELSE IF Truthy(r1)
            THEN [title |-> r1, strategy |-> "font_size", consulted |-> <<2, 1>>]
        ELSE IF Truthy(r3)
            THEN [title |-> r3, strategy |-> "first_line", consulted |-> <<2, 1, 3>>]
        ELSE IF filename # <<>>
            THEN [title |-> filename_title(filename), strategy |-> "filename",
                  consulted |-> <<2, 1, 3, 4>>]
        ELSE [title |-> UntitledDocument, strategy |-> "default",
              consulted |-> <<2, 1, 3, 4>>]

\* TextExtractor.extract_title_with_fallback: the title, the strategy tag
\* left in title_extraction_stats, and the strategies called, in call order
\* (4 is the filename fallback, placeholder included).
extract_title_with_fallback(blocks, metadata, filename) ==
    LET r1 == extract_title_strategy_1(blocks)
        r2 == extract_title_strategy_2(metadata)
        r3 == extract_title_strategy_3(blocks)
    IN  IF filename # <<>> /\ Contains(lower(filename), Words.file05)
            THEN [title |-> <<>>, strategy |-> "special_empty", consulted |-> <<>>]
        ELSE IF Truthy(r1)
            THEN [title |-> r1, strategy |-> "font_size", consulted |-> <<1>>]
        ELSE IF Truthy(r2)
            THEN [title |-> r2, strategy |-> "metadata", consulted |-> <<1, 2>>]
        ELSE IF Truthy(r3)
            THEN [title |-> r3, strategy |-> "first_line", consulted |-> <<1, 2, 3>>]
        ELSE IF filename # <<>>
            THEN [title |-> filename_title(filename), strategy |-> "filename",
                  consulted |-> <<1, 2, 3, 4>>]
        ELSE [title |-> UntitledDocument, strategy |-> "default",
              consulted |-> <<1, 2, 3, 4>>]

-----------------------------------------------------------------------------
(* is_heading_like.  Sizes are in points; the threshold is in percent, so  *)
(* that  font_size < body_size * threshold  is a comparison of integers.   *)

LikeTextCap == 100              \* len(text.strip()) > 100
DefaultThresholdPercent == 120  \* threshold: float = 1.2

is_heading_like(t, font_size, body_size, flags, threshold) ==
    IF font_size * 100 < body_size * threshold THEN FALSE
    ELSE IF Len(strip(t)) > LikeTextCap THEN FALSE
    ELSE IF (flags \div 16) % 2 = 1 /\ font_size >= body_size THEN TRUE
    ELSE font_size * 100 >= body_size * threshold

-----------------------------------------------------------------------------
(* reader.py.  A page is [height, width, readable, blocks]: readable is    *)
(* FALSE when page.get_text("dict") raises; a block of the text dict is    *)
(* [has_lines, lines], an image block having no "lines" key; a line is a   *)
(* sequence of spans [text, size, flags, bbox, font].                      *)

RECURSIVE Flatten(_)
Flatten(seqs) ==
    IF seqs = <<>> THEN <<>> ELSE Head(seqs) \o Flatten(Tail(seqs))

\* bool(flags & 16), bool(flags & 2)
is_bold(flags) == (flags \div 16) % 2 = 1
is_italic(flags) == (flags \div 2) % 2 = 1

Zero == [num |-> 0, den |-> 1]

\* relative_y = bbox[1] / page_height if page_height > 0 else 0
relative_y(y0, page_height) ==
    IF page_height > 0 THEN [num |-> y0, den |-> page_height] ELSE Zero

\* block_info of one span.
block_info(span, page) ==
    [text        |-> strip(span.text),
     bbox        |-> span.bbox,
     font_name   |-> span.font,
     font_size   |-> span.size,
     flags       |-> span.flags,
     page_height |-> page.height,
     page_width  |-> page.width,
     relative_y  |-> relative_y(span.bbox[2], page.height),
     is_bold     |-> is_bold(span.flags),
     is_italic   |-> is_italic(span.flags)]

\* The spans of the blocks that have lines, in block, line, span order.
RECURSIVE SpansOfBlocks(_)
SpansOfBlocks(blocks) ==
    IF blocks = <<>> THEN <<>>
    ELSE (IF Head(blocks).has_lines THEN Flatten(Head(blocks).lines) ELSE <<>>)
         \o SpansOfBlocks(Tail(blocks))

RECURSIVE BlockInfos(_, _)
BlockInfos(spans, page) ==
    IF spans = <<>> THEN <<>>
    ELSE (IF strip(Head(spans).text) = <<>> THEN <<>>
          ELSE <<block_info(Head(spans), page)>>)
         \o BlockInfos(Tail(spans), page)

\* extract_blocks_from_page
extract_blocks_from_page(page) ==
    IF ~page.readable THEN <<>>
    ELSE BlockInfos(SpansOfBlocks(page.blocks), page)

WithPage(block, page_num) ==
    [text        |-> block.text,
     bbox        |-> block.bbox,
     font_name   |-> block.font_name,
     font_size   |-> block.font_size,
     flags       |-> block.flags,
     page_height |-> block.page_height,
     page_width  |-> block.page_width,
     relative_y  |-> block.relative_y,
     is_bold     |-> block.is_bold,
     is_italic   |-> block.is_italic,
     page        |-> page_num]

\* get_text_blocks_vectorized, its all_blocks: page_num counts from 0.
RECURSIVE AllBlocksFrom(_, _)
AllBlocksFrom(pages, i) ==
    IF i > Len(pages) THEN <<>>
    ELSE LET blocks == extract_blocks_from_page(pages[i])
         IN  [k \in DOMAIN blocks |-> WithPage(blocks[k], i - 1)]
             \o AllBlocksFrom(pages, i + 1)

get_text_blocks_vectorized(pages) == AllBlocksFrom(pages, 1)

-----------------------------------------------------------------------------
(* HeadingDetector.detect_headings (pdf_utils/heading_detect.py), after    *)
(* sections 4.1 to 4.3 of the specification: the body size is the median   *)
(* font size, the font sizes above body size * threshold are clustered     *)
(* into levels from the largest down, and a span is a heading when its     *)
(* size reaches the threshold, or it is bold and at least body-sized.      *)
(* The body size is kept doubled, so that the median of an even number of  *)
(* sizes stays an integer.                                                 *)

HeadingThresholdPercent == 115      \* HeadingDetector(heading_threshold=1.15)
HeadingTextCap == 100
MaxLevels == 3
ClusterTolerance == 1

SortedInts(ints) ==
    SortedByKey([i \in DOMAIN ints |-> [key |-> <<0, ints[i]>>, val |-> ints[i]]])

BodySize2(blocks) ==
    LET ss == SortedInts([i \in DOMAIN blocks |-> blocks[i].font_size])
        n  == Len(ss)
    IN  IF n % 2 = 1 THEN 2 * ss[(n + 1) \div 2]
        ELSE ss[n \div 2] + ss[n \div 2 + 1]

ReachesThreshold(size, body2) == size * 200 >= body2 * HeadingThresholdPercent
ExceedsThreshold(size, body2) == size * 200 > body2 * HeadingThresholdPercent

\* The distinct sizes above the threshold, largest first.
RECURSIVE DescendingFrom(_)
DescendingFrom(S) ==
    IF S = {} THEN <<>> ELSE <<Max(S)>> \o DescendingFrom(S \ {Max(S)})

\* The pairs <<size, level>>: a size within the tolerance of the largest
\* size of the current cluster joins it, another opens the next level,
\* the levels past MaxLevels collapsing into the last.
RECURSIVE LevelsFrom(_, _, _, _)
LevelsFrom(sizes, i, top, level) ==
    IF i > Len(sizes) THEN {}
    ELSE IF top - sizes[i] <= ClusterTolerance
        THEN {<<sizes[i], level>>} \cup LevelsFrom(sizes, i + 1, top, level)
    ELSE LET next == IF level < MaxLevels THEN level + 1 ELSE MaxLevels
         IN  {<<sizes[i], next>>} \cup LevelsFrom(sizes, i + 1, sizes[i], next)

FontClusters(blocks) ==
    LET body2 == BodySize2(blocks)
        sizes == DescendingFrom({blocks[i].font_size : i \in DOMAIN blocks}
                                \cap {z \in 0..200 : ExceedsThreshold(z, body2)})
    IN  IF sizes = <<>> THEN {} ELSE LevelsFrom(sizes, 1, sizes[1], 1)

HeadingLevel(size, clusters) ==
    IF \E c \in clusters : c[1] = size
        THEN (CHOOSE c \in clusters : c[1] = size)[2]
    ELSE IF clusters = {} THEN 1
    ELSE Max({c[2] : c \in clusters})

IsHeading(block, body2) ==
    /\ Len(strip(block.text)) <= HeadingTextCap
    /\ \/ ReachesThreshold(block.font_size, body2)
       \/ (block.is_bold /\ block.font_size * 2 >= body2)

RECURSIVE CandidatesFrom(_, _, _, _)
CandidatesFrom(blocks, i, body2, clusters) ==
    IF i > Len(blocks) THEN <<>>
    ELSE (IF IsHeading(blocks[i], body2)
          THEN <<[text      |-> blocks[i].text,
                  level     |-> HeadingLevel(blocks[i].font_size, clusters),
                  page      |-> blocks[i].page,
                  bbox      |-> blocks[i].bbox,
                  font_size |-> blocks[i].font_size]>>
          ELSE <<>>)
         \o CandidatesFrom(blocks, i + 1, body2, clusters)

detect_headings(blocks) ==
    IF blocks = <<>> THEN <<>>
    ELSE CandidatesFrom(blocks, 1, BodySize2(blocks), FontClusters(blocks))

-----------------------------------------------------------------------------
(* process_pdfs.py: the per-document driver.                               *)


form_indicators ==
    {Words.application, Words.form, Words.grant, Words.ltc, Words.government, Words.servant}

FormScanLimit == 20         \* blocks[:20]
FormCountThreshold == 3     \* form_count >= 3

\* ' '.join([block['text'].lower() for block in blocks[:20]])
FormTextContent(blocks) ==
    LET first == Prefix(blocks, FormScanLimit)
    IN  Join([i \in DOMAIN first |-> lower(first[i].text)], <<" ">>)

form_count(blocks) ==
    Cardinality({w \in form_indicators : Contains(FormTextContent(blocks), w)})

\* _should_have_empty_outline with  form_count > 3.
should_have_empty_outline_above_3(blocks, filename) ==
    \/ blocks = <<>>
    \/ Contains(lower(filename), Words.file01)
    \/ form_count(blocks) > FormCountThreshold

\* _should_have_empty_outline without the  if not blocks  return.
should_have_empty_outline_no_blocks_check(blocks, filename) ==
    \/ Contains(lower(filename), Words.file01)
    \/ form_count(blocks) >= FormCountThreshold

\* OutlineExtractor._should_have_empty_outline
_should_have_empty_outline(blocks, filename) ==
    \/ blocks = <<>>
    \/ Contains(lower(filename), Words.file01)
    \/ form_count(blocks) >= FormCountThreshold

\* Path(pdf_path).stem of a file name: the name up to its last dot, the
\* whole name when the last dot is its first or its last character.
RECURSIVE LastDot(_, _)
LastDot(name, i) ==
    IF i = 0 THEN 0 ELSE IF name[i] = "." THEN i ELSE LastDot(name, i - 1)

PathStem(name) ==
    LET i == LastDot(name, Len(name))
    IN  IF 1 < i /\ i < Len(name) THEN SubSeq(name, 1, i - 1) ELSE name

ProcessingFailed ==
    <<"P","r","o","c","e","s","s","i","n","g"," ","F","a","i","l","e","d">>

\* The result of the except branch of extract_outline_from_pdf.
MinimalResult(name) ==
    [title   |-> IF PathStem(name) # <<>> THEN PathStem(name)
                 ELSE ProcessingFailed,
     outline |-> <<>>]

\* OutlineExtractor.extract_outline_from_pdf.  d is the document at
\* pdf_path: [name, openable, pages, metadata, detect_raises]; openable is
\* FALSE when fitz.open raises, detect_raises TRUE when detect_headings
\* raises on the document.  The value is the result returned, whether the
\* except branch made it, and which of title extraction and heading
\* detection were called.  get_detection_stats and get_extraction_stats,
\* called before the return, give back dictionaries and change nothing.
extract_outline_from_pdf(d) ==
    IF ~d.openable
    THEN [result |-> MinimalResult(d.name), raised |-> TRUE,
          title_ran |-> FALSE, detect_ran |-> FALSE]
    ELSE LET all_blocks == get_text_blocks_vectorized(d.pages)
             filename == PathStem(d.name)
             title == extract_title_with_fallback(all_blocks, d.metadata,
                                                  filename).title
         IN  IF _should_have_empty_outline(all_blocks, filename)
             THEN [result |-> [title |-> title, outline |-> <<>>],
                   raised |-> FALSE, title_ran |-> TRUE, detect_ran |-> FALSE]
             ELSE IF d.detect_raises
             THEN [result |-> MinimalResult(d.name), raised |-> TRUE,
                   title_ran |-> TRUE, detect_ran |-> TRUE]
             ELSE [result |->
                      [title |-> title,
                       outline |-> assemble_outline(
                           filter_heading_candidates(detect_headings(all_blocks)))],
                   raised |-> FALSE, title_ran |-> TRUE, detect_ran |-> TRUE]

-----------------------------------------------------------------------------
(* Variables of the runs a specification does not make stay None.          *)

CleanIdle  == text = None /\ cleaned = None /\ recleaned = None
FilterIdle == /\ headings = None /\ headings_after = None /\ filtered = None
              /\ outline = None /\ refiltered = None
TitleIdle  == title_args = None /\ title_result = None
DocIdle    == doc = None /\ extraction = None
SpanIdle   == page_in = None /\ page_blocks = None
BatchIdle  == /\ schema = None /\ stats = None /\ pdf_files = None
              /\ pending = None /\ log = None /\ outputs = None
LikeIdle   == like_args = None /\ like_result = None

-----------------------------------------------------------------------------
(* SpecClean: clean_heading_text applied to every string of at most        *)
(* MaxTextLen characters over CleanAlphabet, and again to its result.      *)

MaxTextLen == 3

CleanAlphabet == {"1", ".", " ", "\t", "a", "I", "-", ":"}

StringsUpTo(A, n) == UNION {[1..k -> A] : k \in 0..n}

CleanInputs == StringsUpTo(CleanAlphabet, MaxTextLen)

InitClean ==
    /\ pc = "clean"
    /\ text \in CleanInputs
    /\ cleaned = None
    /\ recleaned = None
    /\ FilterIdle /\ TitleIdle /\ DocIdle /\ SpanIdle /\ BatchIdle /\ LikeIdle

\* cleaned = clean_heading_text(text)
Clean ==
    /\ pc = "clean"
    /\ cleaned' = clean_heading_text(text)
    /\ pc' = "clean_again"
    /\ UNCHANGED <<text, recleaned, filterVars, titleVars, docVars, spanVars, batchVars,
                   likeVars>>

\* recleaned = clean_heading_text(cleaned)
CleanAgain ==
    /\ pc = "clean_again"
    /\ recleaned' = clean_heading_text(cleaned)
    /\ pc' = "clean_done"
    /\ UNCHANGED <<text, cleaned, filterVars, titleVars, docVars, spanVars, batchVars,
                   likeVars>>

NextClean == Clean \/ CleanAgain

SpecClean == InitClean /\ [][NextClean]_vars

-----------------------------------------------------------------------------
(* SpecFilter: filter_heading_candidates applied to lists of at most       *)
(* MaxHeadings candidates, the outline built from the result as            *)
(* extract_outline_from_pdf builds it, and the filter applied again to     *)
(* its own result.                                                         *)

MaxHeadings == 3

FilterTexts ==
    {<<"A","b","c">>, <<"a","b","c">>, <<"A","b","c",":">>,
     <<"1","."," ","A","b","c">>, <<"1","."," ","a","b">>,
     <<"F","o","r","m"," ","A">>, <<"1","2","3">>,
     <<"A","\t"," ","b","c">>, <<"a"," ","b","c">>,
     [i \in 1..(MaxLength + 1) |-> "a"]}

\* The candidates of one page run: the detector gives each candidate the
\* level, page and box of its span; v varies the levels and pages.
CandidateList(ts, v) ==
    [i \in DOMAIN ts |->
        [text  |-> ts[i],
         level |-> 1 + ((i + v) % 3),
         page  |-> (i + v) \div 2,
         bbox  |-> <<0, i, 0, 0>>,
         font_size |-> 18 - 2 * (1 + ((i + v) % 3))]]

HeadingLists ==
    {CandidateList(ts, v) :
        ts \in StringsUpTo(FilterTexts, MaxHeadings), v \in {0, 1}}

InitFilter ==
    /\ pc = "filter"
    /\ headings \in HeadingLists
    /\ headings_after = None
    /\ filtered = None
    /\ outline = None
    /\ refiltered = None
    /\ CleanIdle /\ TitleIdle /\ DocIdle /\ SpanIdle /\ BatchIdle /\ LikeIdle

\* filtered_headings = filter_heading_candidates(raw_headings), then the
\* loop that appends one outline item per filtered heading.
FilterHeadings ==
    /\ pc = "filter"
    /\ LET r == FilterRun(headings)
       IN  /\ filtered' = r.filtered
           /\ headings_after' = r.headings
           /\ outline' = assemble_outline(r.filtered)
    /\ pc' = "refilter"
    /\ UNCHANGED <<headings, refiltered, cleanVars, titleVars, docVars, spanVars, batchVars,
                   likeVars>>

\* refiltered = filter_heading_candidates(filtered)
Refilter ==
    /\ pc = "refilter"
    /\ refiltered' = filter_heading_candidates(filtered)
    /\ pc' = "filter_done"
    /\ UNCHANGED <<headings, headings_after, filtered, outline,
                   cleanVars, titleVars, docVars, spanVars, batchVars,
                   likeVars>>

NextFilter == FilterHeadings \/ Refilter

SpecFilter == InitFilter /\ [][NextFilter]_vars

-----------------------------------------------------------------------------
(* SpecSpan: extract_blocks_from_page applied to pages of at most MaxSpans *)
(* spans, laid out in one line, in one line each, or in one block each     *)
(* with an image block between.                                            *)

MaxSpans == 2

RawSpans ==
    {[text |-> t, size |-> 12, flags |-> f, bbox |-> <<0, y, 1, y + 1>>,
      font |-> "Helvetica"] :
        t \in {<<>>, <<" ", "a", "\t">>}, f \in {0, 18}, y \in {-1, 1, 3}}

ImageBlock == [has_lines |-> FALSE, lines |-> <<>>]

PageLayouts == {"one_line", "line_each", "block_each"}

TextDictBlocks(spans, layout) ==
    IF layout = "one_line"
        THEN <<[has_lines |-> TRUE, lines |-> <<spans>>]>>
    ELSE IF layout = "line_each"
        THEN <<[has_lines |-> TRUE,
                lines |-> [i \in DOMAIN spans |-> <<spans[i]>>]]>>
    ELSE Flatten([i \in DOMAIN spans |->
                    <<[has_lines |-> TRUE, lines |-> <<<<spans[i]>>>>],
                      ImageBlock>>])

Pages ==
    {[height |-> h, width |-> 3, readable |-> r,
      blocks |-> TextDictBlocks(spans, layout)] :
        h \in {0, 2}, r \in BOOLEAN, layout \in PageLayouts,
        spans \in StringsUpTo(RawSpans, MaxSpans)}

InitSpan ==
    /\ pc = "spans"
    /\ page_in \in Pages
    /\ page_blocks = None
    /\ CleanIdle /\ FilterIdle /\ TitleIdle /\ DocIdle /\ BatchIdle /\ LikeIdle

\* blocks = extract_blocks_from_page(page)
ExtractBlocks ==
    /\ pc = "spans"
    /\ page_blocks' = extract_blocks_from_page(page_in)
    /\ pc' = "spans_done"
    /\ UNCHANGED <<page_in, cleanVars, filterVars, titleVars, docVars, batchVars,
                   likeVars>>

SpecSpan == InitSpan /\ [][ExtractBlocks]_vars

-----------------------------------------------------------------------------
(* Documents.  The texts of the spans, the file names and the pages the    *)
(* specifications below draw their documents from.                         *)

Texts ==
    [AnnualReport |-> <<"A","n","n","u","a","l"," ","R","e","p","o","r","t">>,
     Annual |-> <<"A","n","n","u","a","l">>,
     Report |-> <<"R","e","p","o","r","t">>,
     Overview |-> <<"1","."," ","O","v","e","r","v","i","e","w">>,
     Details |-> <<"2","."," ","D","e","t","a","i","l","s">>,
     BodyOne |->
         <<"T","h","i","s"," ","i","s"," ","b","o","d","y"," ","t","e","x",
           "t",".">>,
     BodyTwo |->
         <<"m","o","r","e"," ","p","l","a","i","n"," ","w","o","r","d","s">>,
     Draft |-> <<"D","r","a","f","t">>,
     Summary |->
         <<"S","u","m","m","a","r","y"," ","o","f"," ","w","o","r","k">>,
     PageOne |-> <<"P","a","g","e"," ","1">>,
     Twelve |-> <<"1","2",":">>,
     LateTitle |-> <<"L","a","t","e"," ","t","i","t","l","e">>,
     Heading |-> <<"O","v","e","r","v","i","e","w">>,
     Form3 |->
         <<"G","o","v","e","r","n","m","e","n","t"," ","s","e","r","v","a",
           "n","t"," ","L","T","C"," ","r","u","l","e","s">>,
     Form6 |->
         <<"A","p","p","l","i","c","a","t","i","o","n"," ","f","o","r","m",
           " ","f","o","r"," ","g","r","a","n","t"," ","o","f"," ","L","T",
           "C"," ","t","o"," ","a"," ","g","o","v","e","r","n","m","e","n",
           "t"," ","s","e","r","v","a","n","t">>,
     Blank |-> <<" ","\t"," ">>,
     MyPaper |-> <<" ","M","y"," ","P","a","p","e","r"," ">>,
     DraftV2 |-> <<"D","r","a","f","t"," ","v","2">>,
     report_pdf |-> <<"r","e","p","o","r","t",".","p","d","f">>,
     a_b_c_pdf |-> <<"a","_","b","-","c",".","p","d","f">>,
     File01_pdf |-> <<"F","i","l","e","0","1",".","p","d","f">>,
     file05_pdf |-> <<"m","y","_","f","i","l","e","0","5",".","p","d","f">>,
     dot_pdf |-> <<".","p","d","f">>,
     bad_pdf |-> <<"b","a","d",".","p","d","f">>,
     form_pdf |-> <<"f","o","r","m",".","p","d","f">>,
     odd_pdf |-> <<"o","d","d",".","p","d","f">>,
     report |-> <<"r","e","p","o","r","t">>,
     a_b_c |-> <<"a","_","b","-","c">>,
     file05 |-> <<"f","i","l","e","0","5">>,
     My_File05 |-> <<"M","y","_","F","i","l","e","0","5">>,
     underscore |-> <<"_">>]

\* A span of the text dict: t at height y in a font of the given size.
Span(t, y, size, flags) ==
    [text |-> t, size |-> size, flags |-> flags,
     bbox |-> <<72, y, 300, y + size>>, font |-> "Helvetica"]

\* A readable Letter page of one text block, each span on a line of its own.
TextPage(spans) ==
    [height |-> 792, width |-> 612, readable |-> TRUE,
     blocks |-> TextDictBlocks(spans, "line_each")]

BlankPage ==
    [height |-> 792, width |-> 612, readable |-> TRUE,
     blocks |-> <<ImageBlock,
                  [has_lines |-> TRUE, lines |-> <<<<Span(Texts.Blank, 50, 12, 0)>>>>]>>]

UnreadablePage ==
    [height |-> 792, width |-> 612, readable |-> FALSE,
     blocks |-> TextDictBlocks(<<Span(Texts.AnnualReport, 50, 24, 0)>>, "line_each")]

BodySpans(n, y) == [i \in 1..n |-> Span(Texts.BodyOne, y + 20 * i, 12, 0)]

\* The pages of the documents.  Form3 has exactly three form indicators
\* under a heading of its own; FormLate has the form text past the first
\* 20 spans of the first page; FormSecondPage has it on the second page,
\* among the first 20 spans overall.
PageLists ==
    [Empty |-> <<>>,
     Blank |-> <<BlankPage>>,
     Unreadable |-> <<UnreadablePage>>,
     Report |->
        <<TextPage(<<Span(Texts.AnnualReport, 50, 24, 0),
                     Span(Texts.Overview, 150, 16, 16),
                     Span(Texts.BodyOne, 200, 12, 0),
                     Span(Texts.BodyTwo, 220, 12, 0),
                     Span(Texts.BodyOne, 240, 12, 0)>>),
          TextPage(<<Span(Texts.Details, 50, 16, 16),
                     Span(Texts.BodyTwo, 100, 12, 0)>>)>>,
     Stitch |->
        <<TextPage(<<Span(Texts.Annual, 50, 24, 0),
                     Span(Texts.Report, 70, 24, 0),
                     Span(Texts.BodyOne, 200, 12, 0)>>)>>,
     DraftTop |->
        <<TextPage(<<Span(Texts.Draft, 50, 24, 0),
                     Span(Texts.Summary, 300, 12, 0)>>)>>,
     Noise |->
        <<TextPage(<<Span(Texts.PageOne, 50, 12, 0),
                     Span(Texts.Twelve, 300, 12, 0)>>)>>,
     Low |->
        <<TextPage(<<Span(Texts.BodyTwo, 400, 12, 0),
                     Span(Texts.LateTitle, 300, 14, 0)>>)>>,
     SecondPage |->
        <<BlankPage, TextPage(<<Span(Texts.LateTitle, 50, 14, 0)>>)>>,
     Form3 |->
        <<TextPage(<<Span(Texts.Heading, 50, 16, 0),
                     Span(Texts.Form3, 200, 12, 0),
                     Span(Texts.BodyOne, 220, 12, 0),
                     Span(Texts.BodyTwo, 240, 12, 0)>>)>>,
     Form6 |->
        <<TextPage(<<Span(Texts.Heading, 50, 16, 0),
                     Span(Texts.Form6, 200, 12, 0),
                     Span(Texts.BodyOne, 220, 12, 0)>>)>>,
     FormLate |->
        <<TextPage(<<Span(Texts.Heading, 50, 16, 0)>> \o BodySpans(20, 60)
                   \o <<Span(Texts.Form6, 600, 12, 0)>>)>>,
     FormSecondPage |->
        <<TextPage(<<Span(Texts.Heading, 50, 16, 0),
                     Span(Texts.BodyOne, 200, 12, 0)>>),
          TextPage(<<Span(Texts.Form6, 50, 12, 0)>>)>>]

\* doc.metadata: none, without a title, with a title, with a title that
\* is not valid, with a blank title.
Meta ==
    [Absent  |-> [present |-> FALSE, title |-> None],
     NoTitle |-> [present |-> TRUE, title |-> None],
     Titled  |-> [present |-> TRUE, title |-> Texts.MyPaper],
     Draft   |-> [present |-> TRUE, title |-> Texts.DraftV2],
     Blank   |-> [present |-> TRUE, title |-> Texts.Blank]]

-----------------------------------------------------------------------------
(* SpecTitle: extract_title_with_fallback applied to the blocks of a       *)
(* document, a metadata dictionary and a file name.                        *)

InitTitle ==
    /\ pc = "title"
    /\ title_args \in
          {[blocks |-> get_text_blocks_vectorized(p), metadata |-> m,
            filename |-> f] :
              p \in {PageLists.Empty, PageLists.Report, PageLists.Stitch,
                      PageLists.DraftTop, PageLists.Noise, PageLists.Low,
                      PageLists.SecondPage},
              m \in {Meta.Absent, Meta.NoTitle, Meta.Titled, Meta.Draft,
                      Meta.Blank},
              f \in {<<>>, Texts.report, Texts.a_b_c, Texts.file05,
                      Texts.My_File05, Texts.underscore}}
    /\ title_result = None
    /\ CleanIdle /\ FilterIdle /\ DocIdle /\ SpanIdle /\ BatchIdle /\ LikeIdle

\* title = self.text_extractor.extract_title_with_fallback(...)
ExtractTitle ==
    /\ pc = "title"
    /\ title_result' = extract_title_with_fallback(
                           title_args.blocks, title_args.metadata,
                           title_args.filename)
    /\ pc' = "title_done"
    /\ UNCHANGED <<title_args, cleanVars, filterVars, docVars, spanVars,
                   batchVars,
                   likeVars>>

SpecTitle == InitTitle /\ [][ExtractTitle]_vars

-----------------------------------------------------------------------------
(* SpecDoc: extract_outline_from_pdf applied to one document.              *)

DocSet ==
    {[name |-> n, openable |-> o, pages |-> p, metadata |-> m,
      detect_raises |-> r] :
        n \in {Texts.report_pdf, Texts.a_b_c_pdf, Texts.File01_pdf,
                Texts.file05_pdf, Texts.dot_pdf},
        o \in BOOLEAN,
        p \in {PageLists.Empty, PageLists.Blank, PageLists.Unreadable,
                PageLists.Report, PageLists.Form3, PageLists.Form6,
                PageLists.FormLate, PageLists.FormSecondPage},
        m \in {Meta.Absent, Meta.NoTitle, Meta.Titled},
        r \in BOOLEAN}

InitDoc ==
    /\ pc = "extract"
    /\ doc \in DocSet
    /\ extraction = None
    /\ CleanIdle /\ FilterIdle /\ TitleIdle /\ SpanIdle /\ BatchIdle /\ LikeIdle

\* result = extractor.extract_outline_from_pdf(pdf_path)
ExtractOutline ==
    /\ pc = "extract"
    /\ extraction' = extract_outline_from_pdf(doc)
    /\ pc' = "extract_done"
    /\ UNCHANGED <<doc, cleanVars, filterVars, titleVars, spanVars, batchVars,
                   likeVars>>

SpecDoc == InitDoc /\ [][ExtractOutline]_vars

-----------------------------------------------------------------------------
(* Spec: one OutlineExtractor and the process_directory calls made on it.  *)
(* schema is self.schema, stats is self.stats without the processing time, *)
(* pdf_files and pending are the list and the rest of the loop of the call *)
(* in progress, log has one entry per iteration of the loop of that call   *)
(* (what process_single_file did, the counters and the output directory    *)
(* before and after), outputs is the output directory.                     *)

MaxProcessed == 4

\* self.schema: None when output_schema.json is missing or unreadable,
\* else a schema, here one of: the title is not empty, the outline is not
\* empty, and a schema that is itself malformed.
Schemas == {None, <<"title_required">>, <<"outline_required">>, <<"malformed">>}

\* OutlineExtractor.validate_output
validate_output(output_data, sch) ==
    IF sch = None THEN TRUE
    ELSE IF sch = <<"title_required">> THEN output_data.title # <<>>
    ELSE IF sch = <<"outline_required">> THEN output_data.outline # <<>>
    ELSE FALSE

\* What process_single_file does with the result e of the extraction.
single_file_outcome(name, e, sch, io_ok) ==
    [file    |-> name,
     result  |-> e.result,
     raised  |-> e.raised,
     valid   |-> validate_output(e.result, sch),
     written |-> validate_output(e.result, sch) /\ io_ok,
     success |-> validate_output(e.result, sch) /\ io_ok]

\* OutlineExtractor.process_single_file; io_ok is FALSE when makedirs, open
\* or json.dump raises.  The extraction is made once.
process_single_file(d, sch, io_ok) ==
    CHOOSE r \in {single_file_outcome(d.name, e, sch, io_ok) :
                     e \in {extract_outline_from_pdf(d)}} : TRUE

\* The counters with a failed file counted in processed_files only.
count_successes_only(st, success) ==
    [processed_files        |-> st.processed_files + 1,
     successful_extractions |->
         st.successful_extractions + (IF success THEN 1 ELSE 0),
     failed_extractions     |-> st.failed_extractions]

\* Every file counted as successful.
count_all_successful(st, success) ==
    [processed_files        |-> st.processed_files + 1,
     successful_extractions |-> st.successful_extractions + 1,
     failed_extractions     |-> st.failed_extractions]

\* The counters after one iteration of the loop of process_directory.
count_file(st, success) ==
    [processed_files        |-> st.processed_files + 1,
     successful_extractions |->
         st.successful_extractions + (IF success THEN 1 ELSE 0),
     failed_extractions     |->
         st.failed_extractions + (IF success THEN 0 ELSE 1)]

\* json_filename = pdf_file.stem + ".json"
json_filename(name) == PathStem(name) \o <<".", "j", "s", "o", "n">>

\* The output directory after json.dump(result) to the file.
written_to(dir, name, result) ==
    {o \in dir : o.file # json_filename(name)}
        \cup {[file |-> json_filename(name), data |-> result]}

\* The PDF files of the input directories: a report, a file that cannot be
\* opened, a report named after file05, a form, and a report on which the
\* heading detector raises.
Docs ==
    [Good    |-> [name |-> Texts.report_pdf, openable |-> TRUE,
                  pages |-> PageLists.Report, metadata |-> Meta.Absent,
                  detect_raises |-> FALSE],
     Corrupt |-> [name |-> Texts.bad_pdf, openable |-> FALSE,
                  pages |-> PageLists.Empty, metadata |-> Meta.Absent,
                  detect_raises |-> FALSE],
     File05  |-> [name |-> Texts.file05_pdf, openable |-> TRUE,
                  pages |-> PageLists.Report, metadata |-> Meta.Titled,
                  detect_raises |-> FALSE],
     Form    |-> [name |-> Texts.form_pdf, openable |-> TRUE,
                  pages |-> PageLists.Form6, metadata |-> Meta.Absent,
                  detect_raises |-> FALSE],
     Odd     |-> [name |-> Texts.odd_pdf, openable |-> TRUE,
                  pages |-> PageLists.Report, metadata |-> Meta.Absent,
                  detect_raises |-> TRUE]]

\* The input directories: exists is input_path.exists(), files is
\* list(input_path.glob("*.pdf")).
Directories ==
    {[exists |-> FALSE, files |-> <<>>],
     [exists |-> TRUE, files |-> <<>>],
     [exists |-> TRUE, files |-> <<Docs.Good>>],
     [exists |-> TRUE, files |-> <<Docs.Corrupt, Docs.Good>>],
     [exists |-> TRUE, files |-> <<Docs.File05, Docs.Good>>],
     [exists |-> TRUE, files |-> <<Docs.Form, Docs.Corrupt>>],
     [exists |-> TRUE, files |-> <<Docs.Good, Docs.Odd, Docs.Form>>]}

\* OutlineExtractor.__init__
Init ==
    /\ pc = "idle"
    /\ schema \in Schemas
    /\ stats = [processed_files |-> 0, successful_extractions |-> 0,
                failed_extractions |-> 0]
    /\ pdf_files = <<>>
    /\ pending = <<>>
    /\ log = <<>>
    /\ outputs = {}
    /\ CleanIdle /\ FilterIdle /\ TitleIdle /\ DocIdle /\ SpanIdle /\ LikeIdle

\* process_directory: the input directory does not exist, return self.stats.
DirectoryMissing ==
    /\ pc \in {"idle", "returned"}
    /\ \E dir \in Directories : ~dir.exists
    /\ pdf_files' = <<>> /\ pending' = <<>> /\ log' = <<>>
    /\ pc' = "returned"
    /\ UNCHANGED <<schema, stats, outputs, cleanVars, filterVars, titleVars,
                   docVars, spanVars,
                   likeVars>>

\* process_directory: no PDF files found, return self.stats.
NoPdfFiles ==
    /\ pc \in {"idle", "returned"}
    /\ \E dir \in Directories : dir.exists /\ dir.files = <<>>
    /\ pdf_files' = <<>> /\ pending' = <<>> /\ log' = <<>>
    /\ pc' = "returned"
    /\ UNCHANGED <<schema, stats, outputs, cleanVars, filterVars, titleVars,
                   docVars, spanVars,
                   likeVars>>

\* process_directory up to the loop: pdf_files = list(input_path.glob("*.pdf")).
StartLoop ==
    /\ pc \in {"idle", "returned"}
    /\ \E dir \in Directories :
          /\ dir.exists /\ dir.files # <<>>
          /\ stats.processed_files + Len(dir.files) <= MaxProcessed
          /\ pdf_files' = dir.files
          /\ pending' = dir.files
    /\ log' = <<>>
    /\ pc' = "loop"
    /\ UNCHANGED <<schema, stats, outputs, cleanVars, filterVars, titleVars,
                   docVars, spanVars,
                   likeVars>>

\* One iteration of  for pdf_file in pdf_files.
ProcessNextFile ==
    /\ pc = "loop"
    /\ pending # <<>>
    /\ \E io_ok \in BOOLEAN :
          \E r \in {process_single_file(Head(pending), schema, io_ok)} :
              /\ stats' = count_file(stats, r.success)
              /\ outputs' = IF r.written
                            THEN written_to(outputs, r.file, r.result)
                            ELSE outputs
              /\ log' = Append(log, [call |-> r, before |-> stats,
                                     after |-> stats',
                                     dir_before |-> outputs,
                                     dir_after |-> outputs'])
    /\ pending' = Tail(pending)
    /\ UNCHANGED <<pc, schema, pdf_files, cleanVars, filterVars, titleVars,
                   docVars, spanVars,
                   likeVars>>

\* The loop is over: return self.stats.
FinishLoop ==
    /\ pc = "loop"
    /\ pending = <<>>
    /\ pc' = "returned"
    /\ UNCHANGED <<schema, stats, pdf_files, pending, log, outputs, cleanVars,
                   filterVars, titleVars, docVars, spanVars,
                   likeVars>>

Next ==
    \/ DirectoryMissing
    \/ NoPdfFiles
    \/ StartLoop
    \/ ProcessNextFile
    \/ FinishLoop

Spec == Init /\ [][Next]_vars

-----------------------------------------------------------------------------
(* SpecLike: is_heading_like applied to texts of 3, 100 and 101 characters *)
(* and a text of 100 characters between spaces, in fonts from MinFontSize  *)
(* to MaxFontSize points, plain, italic, bold and bold italic.             *)

MinFontSize == 8
MaxFontSize == 16

LikeTexts ==
    {<<"A", "b", "c">>,
     [i \in 1..LikeTextCap |-> "a"],
     [i \in 1..(LikeTextCap + 1) |-> "a"],
     <<" ">> \o [i \in 1..LikeTextCap |-> "a"] \o <<" ", "\t">>}

InitLike ==
    /\ pc = "like"
    /\ like_args \in
          [text : LikeTexts, font_size : MinFontSize..MaxFontSize,
           body_size : {10, 12}, flags : {0, 2, 16, 18},
           threshold : {115, DefaultThresholdPercent}]
    /\ like_result = None
    /\ CleanIdle /\ FilterIdle /\ TitleIdle /\ DocIdle /\ SpanIdle /\ BatchIdle

\* is_heading_like(text, font_size, body_size, flags, threshold)
HeadingLike ==
    /\ pc = "like"
    /\ like_result' = is_heading_like(like_args.text, like_args.font_size,
                                      like_args.body_size, like_args.flags,
                                      like_args.threshold)
    /\ pc' = "like_done"
    /\ UNCHANGED <<like_args, cleanVars, filterVars, titleVars, docVars,
                   spanVars, batchVars>>

SpecLike == InitLike /\ [][HeadingLike]_vars

-----------------------------------------------------------------------------
(* Claims.                                                                 *)

\* C7: clean_heading_text is idempotent: cleaning a cleaned text gives it back.
CleanIdempotent == pc = "clean_done" => recleaned = cleaned

\* C6: filter_heading_candidates is idempotent: filtering its own result
\* gives the same candidates, with the same texts, in the same order.
FilterIdempotent == pc = "filter_done" => refiltered = filtered

(* Vocabulary of the filter claims.  Candidate i survives when the result  *)
(* holds an entry made from it (an entry with its box).                    *)
FilterRan == pc \in {"refilter", "filter_done"}

Survives(i) == \E k \in DOMAIN filtered : filtered[k].bbox = headings[i].bbox

\* The cleaned text of a candidate, compared without case or whitespace runs.
CleanedKey(h) == lower(clean_heading_text(h.text))

\* Candidate i reaches the deduplication step of the loop.
Eligible(i) ==
    /\ PassesTextChecks(strip(headings[i].text))
    /\ clean_heading_text(strip(headings[i].text)) # <<>>

EligibleSet == {i \in DOMAIN headings : Eligible(i)}

FirstWithKey(i) ==
    CHOOSE m \in EligibleSet :
        /\ CleanedKey(headings[m]) = CleanedKey(headings[i])
        /\ \A n \in EligibleSet :
              CleanedKey(headings[n]) = CleanedKey(headings[i]) => m <= n

\* The form gate of the loop fired: the first candidate to reach the
\* deduplication step contains a form word.
FormGateFired ==
    /\ EligibleSet # {}
    /\ HasFilterFormWord(strip(headings[CHOOSE m \in EligibleSet :
                                   \A n \in EligibleSet : m <= n].text))

ResultInInputOrder ==
    \A a, b \in DOMAIN filtered : a < b => Y0(filtered[a]) < Y0(filtered[b])

ResultKeysDistinct ==
    \A a, b \in DOMAIN filtered :
        a # b => lower(strip(filtered[a].text)) # lower(strip(filtered[b].text))

FilterKeepsFields ==
    FilterRan =>
        /\ headings_after = headings
        /\ Len(outline) = Len(filtered)
        /\ \A k \in DOMAIN filtered :
              \E i \in DOMAIN headings :
                 /\ headings[i].bbox = filtered[k].bbox
                 /\ filtered[k] = [headings[i] EXCEPT !.text = filtered[k].text]
                 /\ outline[k].level = headings[i].level
                 /\ outline[k].page = headings[i].page
                 /\ outline[k].text = filtered[k].text

\* A run that kept two candidates of different levels and pages and
\* changed the text of one of them beyond the trailing space.
FilterKeepsFieldsWitness ==
    /\ FilterRan
    /\ Len(filtered) >= 2
    /\ filtered[1].level # filtered[2].level
    /\ filtered[1].page # filtered[2].page
    /\ \E k \in DOMAIN filtered : \E i \in DOMAIN headings :
          /\ headings[i].bbox = filtered[k].bbox
          /\ filtered[k].text # headings[i].text \o <<" ">>

\* relative_y as the claim has it: the quotient clamped to [0, 1].
relative_y_clamped(y0, page_height) ==
    IF page_height > 0
    THEN IF y0 < 0 THEN Zero
         ELSE IF y0 > page_height THEN [num |-> 1, den |-> 1]
         ELSE [num |-> y0, den |-> page_height]
    ELSE Zero

\* The fraction lies in [0, 1].
InUnitInterval(q) == q.den > 0 /\ 0 <= q.num /\ q.num <= q.den

\* C10: every block extract_blocks_from_page returns has relative_y equal
\* to y0 / page_height clamped to [0, 1] when page_height > 0 and to 0
\* otherwise, so relative_y lies in [0, 1].
RelativeYClamped ==
    pc = "spans_done" =>
        \A k \in DOMAIN page_blocks :
            /\ InUnitInterval(page_blocks[k].relative_y)
            /\ page_blocks[k].relative_y.num * relative_y_clamped(
                    page_blocks[k].bbox[2], page_blocks[k].page_height).den
               = relative_y_clamped(page_blocks[k].bbox[2],
                                    page_blocks[k].page_height).num
                 * page_blocks[k].relative_y.den

(* Vocabulary of the title claims.  The four strategies' results on the    *)
(* arguments of the call, and the first of them that yields a title.       *)
StrategyResults ==
    <<extract_title_strategy_1(title_args.blocks),
      extract_title_strategy_2(title_args.metadata),
      extract_title_strategy_3(title_args.blocks),
      IF title_args.filename # <<>> THEN filename_title(title_args.filename)
      ELSE UntitledDocument>>

Yields(r) == r # None /\ Len(r) > 0

FirstYielding ==
    CHOOSE k \in 1..4 :
        /\ Yields(StrategyResults[k])
        /\ \A j \in 1..(k - 1) : ~Yields(StrategyResults[j])

CascadeInOrder ==
    /\ title_result.title = StrategyResults[FirstYielding]
    /\ title_result.consulted = [i \in 1..FirstYielding |-> i]

NamedFile05 == Contains(lower(title_args.filename), Words.file05)

\* C3 as stated: the title is the result of the first of the strategies
\* layout, metadata, first line, filename that yields a non-empty text, and
\* the strategies consulted are exactly those up to that one, in order.
TitleCascadeOrder == pc = "title_done" => CascadeInOrder

\* C3: as above for every file name that does not contain "file05"
\* (case-insensitively); for a file name that does, the title is empty and
\* no strategy is consulted.
TitleCascadeOrderExceptOverride ==
    pc = "title_done" =>
        IF NamedFile05
        THEN title_result.title = <<>> /\ title_result.consulted = <<>>
        ELSE CascadeInOrder

\* A call in which the layout and the metadata strategy yielded nothing,
\* the metadata holding a title that is not valid, and the first line won.
TitleCascadeWitness ==
    /\ pc = "title_done"
    /\ ~NamedFile05
    /\ title_args.metadata = Meta.Draft
    /\ title_result.consulted = <<1, 2, 3>>
    /\ title_result.title = StrategyResults[3]

(* Vocabulary of the document claims.                                      *)
Extracted == pc = "extract_done"

\* The document gave no span: it could not be opened, or no page of it
\* gave a span with text.
ZeroSpans ==
    \/ ~doc.openable
    \/ get_text_blocks_vectorized(doc.pages) = <<>>

MetadataTitleValid ==
    /\ doc.metadata.present
    /\ doc.metadata.title # None
    /\ _is_valid_title(strip(doc.metadata.title))

ZeroSpansTitle ==
    IF ~doc.openable THEN PathStem(doc.name)
    ELSE IF Contains(lower(PathStem(doc.name)), Words.file05) THEN <<>>
    ELSE IF MetadataTitleValid THEN strip(doc.metadata.title) \o <<" ", " ">>
    ELSE filename_title(PathStem(doc.name))

FirstPageSpans ==
    IF ~doc.openable \/ doc.pages = <<>> THEN <<>>
    ELSE IF ~doc.pages[1].readable THEN <<>>
    ELSE Prefix(SpansOfBlocks(doc.pages[1].blocks), 20)

\* The form indicators those spans contain, whatever the case.
IndicatorsFound ==
    {w \in {Words.application, Words.form, Words.grant, Words.ltc, Words.government, Words.servant} :
        \E i \in DOMAIN FirstPageSpans :
            Contains(lower(FirstPageSpans[i].text), w)}

\* C5: a document whose first 20 first-page spans contain at least 3
\* distinct form indicators gets an empty outline, heading detection is
\* not run on it, and title extraction is run.
FormGateEmptiesOutline ==
    (Extracted /\ Cardinality(IndicatorsFound) >= 3) =>
        /\ extraction.result.outline = <<>>
        /\ ~extraction.detect_ran
        /\ extraction.title_ran
        /\ ~extraction.raised

\* A document with exactly 3 indicators, not named file01, on which
\* detection and filtering would have left a heading.
FormGateWitness ==
    /\ Extracted
    /\ Cardinality(IndicatorsFound) = 3
    /\ ~Contains(lower(doc.name), Words.file01)
    /\ filter_heading_candidates(
           detect_headings(get_text_blocks_vectorized(doc.pages))) # <<>>
    /\ extraction.result.outline = <<>>
    /\ ~extraction.detect_ran
    /\ extraction.title_ran

(* Vocabulary of the batch claims.                                         *)
CountedFailed(entry) ==
    /\ entry.after.failed_extractions = entry.before.failed_extractions + 1
    /\ entry.after.successful_extractions = entry.before.successful_extractions

\* Every file of the call has had its iteration, in the order of pdf_files,
\* once the call has returned, and the files before the pending ones have
\* had theirs while it runs.
BatchContinues ==
    /\ pc \in {"loop", "returned"} =>
          /\ Len(log) + Len(pending) = Len(pdf_files)
          /\ \A i \in DOMAIN log : log[i].call.file = pdf_files[i].name
          /\ \A i \in DOMAIN pending : pending[i] = pdf_files[Len(log) + i]
    /\ pc = "returned" => pending = <<>>

\* C1: a document in whose extraction an exception was raised yields the
\* result {title: stem of the file name, outline: []}, is counted in
\* failed_extractions and not in successful_extractions, and the batch
\* goes on with the remaining documents.
FatalErrorCountedFailed ==
    /\ BatchContinues
    /\ \A i \in DOMAIN log :
          log[i].call.raised =>
              /\ log[i].call.result =
                    [title |-> PathStem(log[i].call.file), outline |-> <<>>]
              /\ CountedFailed(log[i])

\* C2: a document whose result fails validate_output makes
\* process_single_file return False, increments failed_extractions and
\* leaves the output directory as it was, and the later documents of the
\* batch are still processed.
InvalidReportedFailed ==
    /\ BatchContinues
    /\ \A i \in DOMAIN log :
          ~log[i].call.valid =>
              /\ ~log[i].call.success
              /\ ~log[i].call.written
              /\ log[i].dir_after = log[i].dir_before
              /\ CountedFailed(log[i])
              /\ stats.failed_extractions >= log[i].after.failed_extractions

\* A call that returned after a document failed validation and a later
\* document of the same batch was processed and written.
InvalidReportedFailedWitness ==
    /\ pc = "returned"
    /\ \E i \in DOMAIN log : \E j \in DOMAIN log :
          /\ i < j
          /\ ~log[i].call.valid
          /\ ~log[i].call.raised
          /\ log[j].call.success
          /\ log[j].dir_after # log[j].dir_before

(* Vocabulary of the title validity claim.  The title without the two      *)
(* spaces of padding, and the validity check as the claim spells it.       *)
Unpadded(t) ==
    IF Len(t) >= 2 /\ SubSeq(t, Len(t) - 1, Len(t)) = <<" ", " ">>
    THEN SubSeq(t, 1, Len(t) - 2)
    ELSE t

Blacklist ==
    {<<"p","a","g","e"," ">>, <<"d","o","c","u","m","e","n","t">>,
     <<"d","r","a","f","t">>, <<"v","e","r","s","i","o","n">>,
     <<"t","a","b","l","e"," ","o","f"," ","c","o","n","t","e","n","t","s">>,
     <<"t","o","c">>, <<"i","n","d","e","x">>}

LooksLikeTableCell(t) ==
    \/ (rstrip_chars(t, SpaceChars) # <<>>
        /\ rstrip_chars(t, SpaceChars)[Len(rstrip_chars(t, SpaceChars))]
              \in {":", ";"})
    \/ (Len(t) >= 3 /\ \A i \in DOMAIN t : t[i] \notin AlphaChars)

PassesValidity(t) ==
    /\ Len(strip(t)) >= 3
    /\ \A w \in Blacklist : ~Contains(lower(t), w)
    /\ alpha_count(t) * 10 >= Len(t) * 3
    /\ ~LooksLikeTableCell(t)

\* C11 as stated: the title extract_title_with_fallback returns, without
\* its padding, has trimmed length >= 3, holds no blacklisted substring,
\* has alphabetic ratio >= 0.3 and is not a table cell.
TitleAlwaysValid ==
    pc = "title_done" => PassesValidity(Unpadded(title_result.title))

\* C11: the same of every title that strategy 1, 2 or 3 gave; the title of
\* the filename fallback, the placeholder and the empty title of the
\* file05 override are not checked.
TitleFromStrategyValid ==
    (pc = "title_done"
        /\ title_result.strategy \in {"font_size", "metadata", "first_line"})
    => PassesValidity(Unpadded(title_result.title))

\* A call in which the layout strategy had blocks and gave nothing, and the
\* metadata title was accepted.
TitleFromStrategyValidWitness ==
    /\ pc = "title_done"
    /\ title_args.blocks # <<>>
    /\ extract_title_strategy_1(title_args.blocks) = None
    /\ title_result.strategy = "metadata"
    /\ title_result.title = <<"M","y"," ","P","a","p","e","r"," "," ">>

\* C12: is_heading_like accepts a text of at most 100 characters, trimmed,
\* exactly when the font size reaches body size * threshold or the span is
\* bold and at least body-sized, and rejects every longer text.
HeadingLikeBoldRule ==
    pc = "like_done" =>
        (like_result = TRUE
         <=> /\ Len(strip(like_args.text)) <= 100
             /\ \/ like_args.font_size * 100
                      >= like_args.body_size * like_args.threshold
                \/ /\ like_args.flags \in {16, 18}
                   /\ like_args.font_size >= like_args.body_size)

(* Vocabulary of the counter claim.  A step processed a document when it   *)
(* added an entry to the log of the call.                                  *)
DocumentProcessed == Len(log') = Len(log) + 1

CountersBalanced ==
    stats.processed_files
        = stats.successful_extractions + stats.failed_extractions

CountersStep ==
    /\ stats'.processed_files >= stats.processed_files
    /\ stats'.successful_extractions >= stats.successful_extractions
    /\ stats'.failed_extractions >= stats.failed_extractions
    /\ DocumentProcessed =>
          /\ stats'.processed_files = stats.processed_files + 1
          /\ \/ /\ stats'.successful_extractions
                      = stats.successful_extractions + 1
                /\ stats'.failed_extractions = stats.failed_extractions
             \/ /\ stats'.successful_extractions = stats.successful_extractions
                /\ stats'.failed_extractions = stats.failed_extractions + 1
    /\ ~DocumentProcessed => stats' = stats

\* C13: between the documents of every process_directory call and after
\* every call, processed_files = successful_extractions +
\* failed_extractions; no counter ever decreases; and each processed
\* document adds one to processed_files and one to exactly one of
\* successful_extractions and failed_extractions.
CountersConsistent == []CountersBalanced /\ [][CountersStep]_vars

\* A call that returned after an earlier call had processed documents, with
\* documents counted on both sides.
CountersConsistentWitness ==
    /\ pc = "returned"
    /\ log # <<>>
    /\ stats.processed_files > Len(pdf_files)
    /\ stats.successful_extractions >= 1
    /\ stats.failed_extractions >= 1
    /\ stats.processed_files = MaxProcessed

=============================================================================
